---- MODULE Spec2Model ----
(***************************************************************************)
(* ApiKeyManager of packages/core/src/core/contentGenerator.ts: a table of *)
(* API keys with health fields, a current index, three rotation            *)
(* strategies, error reporting with deactivation at a threshold, and a     *)
(* bulk reset.  Every method of the class is one action; the value it      *)
(* returns or the error it throws is recorded in ret.                      *)
(***************************************************************************)
EXTENDS Integers, Sequences, FiniteSets, TLC

VARIABLES
    apiKeys,        \* ApiKeyManager.apiKeys: sequence of ApiKeyInfo records
    currentIndex,   \* ApiKeyManager.currentIndex (0-based key index)
    config,         \* ApiKeyManager.config
    now,            \* the clock read by new Date()
    ret,            \* the last call: method, argument, returned value, thrown error
    pristine,       \* no reportError and no resetErrorCounts since construction
    rotations,      \* rotateApiKey calls made while pristine
    trace,          \* the calls made since construction, when recorded
    input,          \* the string the caller passes (apiKeysString, apiKey)
    globalApiKeyManager,    \* the module's global instance: 0 is null
    instances,      \* managers created by initializeApiKeyManager so far
    held,           \* the array a caller got from getAllApiKeysStatus
    paths,          \* the requests under way: where each is, the key it uses
    globalApiKeyRotated     \* the module's flag set by the rotateApiKey wrapper

\* what lies outside the ApiKeyManager object
envVars == <<input, globalApiKeyManager, instances, held, paths, globalApiKeyRotated>>

vars == <<apiKeys, currentIndex, config, now, ret, pristine, rotations, trace,
          input, globalApiKeyManager, instances, held, paths, globalApiKeyRotated>>

----------------------------------------------------------------------------
(* Bounds of the model *)

\* errorCount is an unbounded JS number: reportError is cut off once the
\* count is this far beyond maxErrorsPerKey
MaxExtraErrors == 1
\* the clock stops here
MaxTime == 1
\* rotations counted on a pristine manager
MaxRotations == 6
\* calls recorded in a trace
MaxTrace == 4

(* Program constants *)

DefaultMaxErrorsPerKey == 3
DefaultCooldownPeriod == 60000

----------------------------------------------------------------------------
(* Optional fields (lastUsed?: Date, lastError?: string): absent or one value *)

Undefined == <<>>
Some(x) == <<x>>

RotationStrategies == {"round-robin", "least-errors", "random"}

\* error messages passed to reportError
Messages == {"Error 1", "Error 2"}

\* the messages of the errors thrown by the class
NoActiveKeysError == "No active API keys available"
NoActiveKeysForRotationError == "No active API keys available for rotation"

\* both are the spec's NoActiveCredentials
NoActiveCredentials == {NoActiveKeysError, NoActiveKeysForRotationError}

\* the key lists the constructor is given (after split, trim and filter)
KeyLists ==
    { <<"k1">>,
      <<"k1", "k2">>,
      <<"k1", "k2", "k3">> }

\* the default configuration merged with a partial one
DefaultConfig ==
    [rotationStrategy |-> "round-robin",
     maxErrorsPerKey  |-> DefaultMaxErrorsPerKey,
     cooldownPeriod   |-> DefaultCooldownPeriod]

\* the thresholds a configuration holds, up to the default
Thresholds == 1..DefaultMaxErrorsPerKey

Configs ==
    { [DefaultConfig EXCEPT !.rotationStrategy = s, !.maxErrorsPerKey = m] :
        s \in RotationStrategies, m \in Thresholds }

\* the table with indices counted from 1
MakeKeysFromOne(keys) ==
    [i \in 1..Len(keys) |->
        [key        |-> keys[i],
         index      |-> i,
         isActive   |-> TRUE,
         errorCount |-> 0,
         lastUsed   |-> Undefined,
         lastError  |-> Undefined]]

\* keys.map((key, index) => ({key, index, isActive: true, errorCount: 0}))
MakeKeys(keys) ==
    [i \in 1..Len(keys) |->
        [key        |-> keys[i],
         index      |-> i - 1,
         isActive   |-> TRUE,
         errorCount |-> 0,
         lastUsed   |-> Undefined,
         lastError  |-> Undefined]]

----------------------------------------------------------------------------
(* Helpers of the class *)

\* getActiveKeys without the filter
AllKeysOf(keys) == keys

\* this.apiKeys.filter(key => key.isActive)
ActiveKeysOf(keys) == SelectSeq(keys, LAMBDA k : k.isActive)

getActiveKeys == ActiveKeysOf(apiKeys)

\* Array.prototype.findIndex(k => k.index === idx): 0-based position, -1 when absent
FindIndex(keys, idx) ==
    IF \E p \in 1..Len(keys) : keys[p].index = idx
    THEN (CHOOSE p \in 1..Len(keys) :
            /\ keys[p].index = idx
            /\ \A q \in 1..(p - 1) : keys[q].index # idx) - 1
    ELSE -1

\* the fallback taking the last active key instead of activeKeys[0]
CurrentOrLast(activeKeys, idx) ==
    IF FindIndex(activeKeys, idx) >= 0
    THEN activeKeys[FindIndex(activeKeys, idx) + 1]
    ELSE activeKeys[Len(activeKeys)]

\* activeKeys.find(k => k.index === this.currentIndex) || activeKeys[0]
CurrentOf(activeKeys, idx) ==
    IF FindIndex(activeKeys, idx) >= 0
    THEN activeKeys[FindIndex(activeKeys, idx) + 1]
    ELSE activeKeys[1]

\* the result record of a call
Returned(method, arg, value) ==
    [method |-> method, arg |-> arg, value |-> Some(value), error |-> Undefined]
Thrown(method, arg, message) ==
    [method |-> method, arg |-> arg, value |-> Undefined, error |-> Some(message)]
Void(method, arg) ==
    [method |-> method, arg |-> arg, value |-> Undefined, error |-> Undefined]

\* recording of the calls
TraceOpen == ~trace.on \/ Len(trace.ops) < MaxTrace
Log(entry) ==
    trace' = IF trace.on THEN [trace EXCEPT !.ops = Append(@, entry)] ELSE trace

----------------------------------------------------------------------------
(* Construction *)

\* new ApiKeyManager(...) on an input that parses to the key list keys
Constructed(keys, cfg) ==
    /\ apiKeys = MakeKeys(keys)
    /\ currentIndex = 0
    /\ config = cfg
    /\ now = 0
    /\ ret = Void("constructor", Undefined)
    /\ pristine = TRUE
    /\ rotations = 0

\* no caller holds an array of getAllApiKeysStatus
NothingHeld == held = [taken |-> FALSE, list |-> <<>>, changes |-> 0]

\* the request paths sharing the manager
Paths == {1, 2}

\* no request is under way
NoRequests == paths = [i \in Paths |-> [pc |-> "idle", index |-> Undefined]]

\* let globalApiKeyRotated = false
NotRotated == globalApiKeyRotated = FALSE

\* a manager made with new ApiKeyManager: the global instance is not set
NoGlobal ==
    /\ input = Undefined
    /\ globalApiKeyManager = 0
    /\ instances = 0

Init ==
    /\ \E keys \in KeyLists, cfg \in Configs : Constructed(keys, cfg)
    /\ trace = [on |-> FALSE, ops |-> <<>>]
    /\ NoGlobal
    /\ NothingHeld
    /\ NoRequests
    /\ NotRotated

----------------------------------------------------------------------------
(* The pure parts of the methods *)

\* currentKey.lastUsed = new Date() on the key object with index idx
Stamp(keys, idx, t) ==
    [p \in 1..Len(keys) |->
        IF keys[p].index = idx THEN [keys[p] EXCEPT !.lastUsed = Some(t)] ELSE keys[p]]

\* rotateRoundRobin without the step to the next position
RoundRobinStay(activeKeys, idx) ==
    LET currentActiveIndex == FindIndex(activeKeys, idx)
        nextActiveIndex    == currentActiveIndex % Len(activeKeys)
    IN  activeKeys[nextActiveIndex + 1].index

\* rotateRoundRobin: the new currentIndex
\* round-robin going on from an inactive current key to the next active
\* index above it
RoundRobinNextAbove(activeKeys, idx) ==
    LET currentActiveIndex == FindIndex(activeKeys, idx)
        above == {p \in 1..Len(activeKeys) : activeKeys[p].index > idx}
    IN  IF currentActiveIndex >= 0
        THEN activeKeys[((currentActiveIndex + 1) % Len(activeKeys)) + 1].index
        ELSE IF above = {}
        THEN activeKeys[1].index
        ELSE activeKeys[CHOOSE p \in above : \A q \in above : p <= q].index

RoundRobinNext(activeKeys, idx) ==
    LET currentActiveIndex == FindIndex(activeKeys, idx)
        nextActiveIndex    == (currentActiveIndex + 1) % Len(activeKeys)
    IN  activeKeys[nextActiveIndex + 1].index

\* an insertion that puts k before the elements that compare equal
InsertBeforeEqual(sorted, k) ==
    LET smaller == SelectSeq(sorted, LAMBDA a : a.errorCount < k.errorCount)
        others  == SelectSeq(sorted, LAMBDA a : a.errorCount >= k.errorCount)
    IN  smaller \o <<k>> \o others

\* Array.prototype.sort is stable: insert k after the elements that do not
\* compare greater (a.errorCount - b.errorCount <= 0 keeps the order)
RECURSIVE InsertByErrorCount(_, _)
InsertByErrorCount(sorted, k) ==
    IF sorted = <<>> THEN <<k>>
    ELSE IF Head(sorted).errorCount - k.errorCount <= 0
         THEN <<Head(sorted)>> \o InsertByErrorCount(Tail(sorted), k)
         ELSE <<k>> \o sorted

RECURSIVE SortByErrorCount(_)
SortByErrorCount(keys) ==
    IF keys = <<>> THEN <<>>
    ELSE InsertByErrorCount(SortByErrorCount(SubSeq(keys, 1, Len(keys) - 1)),
                            keys[Len(keys)])

\* rotateLeastErrors: the new currentIndex
LeastErrorsNext(activeKeys) == SortByErrorCount(activeKeys)[1].index

\* rotateRandom: Math.floor(Math.random() * activeKeys.length) is any position
RandomNext(activeKeys) == { activeKeys[p].index : p \in 1..Len(activeKeys) }

\* the switch of rotateApiKey: the indices the strategy may set
\* the switch of rotateApiKey with a random strategy that keeps currentIndex
StrategyNextKeepOnRandom(strategy, activeKeys, idx) ==
    CASE strategy = "round-robin"  -> { RoundRobinNext(activeKeys, idx) }
      [] strategy = "least-errors" -> { LeastErrorsNext(activeKeys) }
      [] strategy = "random"       -> { idx }

StrategyNext(strategy, activeKeys, idx) ==
    CASE strategy = "round-robin"  -> { RoundRobinNext(activeKeys, idx) }
      [] strategy = "least-errors" -> { LeastErrorsNext(activeKeys) }
      [] strategy = "random"       -> RandomNext(activeKeys)

\* reportError deactivating only above the threshold (> for >=)
ReportedAbove(keys, idx, message, maxErrors) ==
    [p \in 1..Len(keys) |->
        IF FindIndex(keys, idx) = p - 1
        THEN LET count == keys[p].errorCount + 1 IN
             [keys[p] EXCEPT !.errorCount = count,
                             !.lastError  = Some(message),
                             !.isActive   = IF count > maxErrors THEN FALSE ELSE @]
        ELSE keys[p]]

\* reportError keeping the first lastError instead of overwriting it
ReportedFirstError(keys, idx, message, maxErrors) ==
    [p \in 1..Len(keys) |->
        IF FindIndex(keys, idx) = p - 1
        THEN LET count == keys[p].errorCount + 1 IN
             [keys[p] EXCEPT !.errorCount = count,
                             !.lastError  = IF @ = Undefined THEN Some(message) ELSE @,
                             !.isActive   = IF count >= maxErrors THEN FALSE ELSE @]
        ELSE keys[p]]

\* reportError charging the key getCurrentApiKey returns (the first active
\* key when the one at idx is inactive)
ReportedUsedKey(keys, idx, message, maxErrors) ==
    LET activeKeys == SelectSeq(keys, LAMBDA k : k.isActive)
        used == IF Len(activeKeys) = 0 \/ FindIndex(activeKeys, idx) >= 0
                THEN idx
                ELSE activeKeys[1].index
    IN  [p \in 1..Len(keys) |->
            IF FindIndex(keys, used) = p - 1
            THEN LET count == keys[p].errorCount + 1 IN
                 [keys[p] EXCEPT !.errorCount = count,
                                 !.lastError  = Some(message),
                                 !.isActive   = IF count >= maxErrors THEN FALSE ELSE @]
            ELSE keys[p]]

\* reportError on the key found by this.apiKeys.find(k => k.index === idx)
Reported(keys, idx, message, maxErrors) ==
    [p \in 1..Len(keys) |->
        IF FindIndex(keys, idx) = p - 1
        THEN LET count == keys[p].errorCount + 1 IN
             [keys[p] EXCEPT !.errorCount = count,
                             !.lastError  = Some(message),
                             !.isActive   = IF count >= maxErrors THEN FALSE ELSE @]
        ELSE keys[p]]

\* resetErrorCounts without key.isActive = true
ResetCountsOnly(keys) ==
    [p \in 1..Len(keys) |->
        [keys[p] EXCEPT !.errorCount = 0, !.lastError = Undefined]]

\* resetErrorCounts without key.lastError = undefined
ResetKeepLastError(keys) ==
    [p \in 1..Len(keys) |->
        [keys[p] EXCEPT !.errorCount = 0, !.isActive = TRUE]]

\* the forEach of resetErrorCounts
ResetAll(keys) ==
    [p \in 1..Len(keys) |->
        [keys[p] EXCEPT !.errorCount = 0, !.isActive = TRUE, !.lastError = Undefined]]

----------------------------------------------------------------------------
(* The methods *)

\* getCurrentApiKey that makes the key it falls back to the current one
getCurrentApiKeyAdvancing ==
    /\ TraceOpen
    /\ LET activeKeys == getActiveKeys IN
       IF Len(activeKeys) = 0
       THEN /\ ret' = Thrown("getCurrentApiKey", Undefined, NoActiveKeysError)
            /\ UNCHANGED <<apiKeys, currentIndex>>
       ELSE LET currentKey == CurrentOf(activeKeys, currentIndex) IN
            /\ apiKeys' = Stamp(apiKeys, currentKey.index, now)
            /\ currentIndex' = currentKey.index
            /\ ret' = Returned("getCurrentApiKey", Undefined, currentKey.key)
    /\ Log([method |-> "getCurrentApiKey", arg |-> Undefined])
    /\ UNCHANGED <<config, now, pristine, rotations>>
    /\ UNCHANGED envVars

getCurrentApiKey ==
    /\ TraceOpen
    /\ LET activeKeys == getActiveKeys IN
       IF Len(activeKeys) = 0
       THEN /\ ret' = Thrown("getCurrentApiKey", Undefined, NoActiveKeysError)
            /\ UNCHANGED apiKeys
       ELSE LET currentKey == CurrentOf(activeKeys, currentIndex) IN
            /\ apiKeys' = Stamp(apiKeys, currentKey.index, now)
            /\ ret' = Returned("getCurrentApiKey", Undefined, currentKey.key)
    /\ Log([method |-> "getCurrentApiKey", arg |-> Undefined])
    /\ UNCHANGED <<currentIndex, config, now, pristine, rotations>>
    /\ UNCHANGED envVars

\* getCurrentApiKeyInfo written as a call of getCurrentApiKey, which stamps
getCurrentApiKeyInfoStamping ==
    /\ TraceOpen
    /\ LET activeKeys == getActiveKeys IN
       IF Len(activeKeys) = 0
       THEN /\ ret' = Thrown("getCurrentApiKeyInfo", Undefined, NoActiveKeysError)
            /\ UNCHANGED apiKeys
       ELSE LET currentKey == CurrentOf(activeKeys, currentIndex) IN
            /\ apiKeys' = Stamp(apiKeys, currentKey.index, now)
            /\ ret' = Returned("getCurrentApiKeyInfo", Undefined,
                               [currentKey EXCEPT !.lastUsed = Some(now)])
    /\ Log([method |-> "getCurrentApiKeyInfo", arg |-> Undefined])
    /\ UNCHANGED <<currentIndex, config, now, pristine, rotations>>
    /\ UNCHANGED envVars

getCurrentApiKeyInfo ==
    /\ TraceOpen
    /\ LET activeKeys == getActiveKeys IN
       IF Len(activeKeys) = 0
       THEN ret' = Thrown("getCurrentApiKeyInfo", Undefined, NoActiveKeysError)
       ELSE ret' = Returned("getCurrentApiKeyInfo", Undefined,
                            CurrentOf(activeKeys, currentIndex))
    /\ Log([method |-> "getCurrentApiKeyInfo", arg |-> Undefined])
    /\ UNCHANGED <<apiKeys, currentIndex, config, now, pristine, rotations>>
    /\ UNCHANGED envVars

rotateApiKey ==
    /\ TraceOpen
    /\ pristine => rotations < MaxRotations
    /\ LET activeKeys == getActiveKeys IN
       IF Len(activeKeys) = 0
       THEN /\ ret' = Thrown("rotateApiKey", Undefined, NoActiveKeysForRotationError)
            /\ UNCHANGED <<apiKeys, currentIndex>>
       ELSE \E next \in StrategyNext(config.rotationStrategy, activeKeys, currentIndex) :
            \* return this.getCurrentApiKey()
            LET currentKey == CurrentOf(activeKeys, next) IN
            /\ currentIndex' = next
            /\ apiKeys' = Stamp(apiKeys, currentKey.index, now)
            /\ ret' = Returned("rotateApiKey", Undefined, currentKey.key)
    /\ rotations' = IF pristine THEN rotations + 1 ELSE rotations
    /\ Log([method |-> "rotateApiKey", arg |-> Undefined])
    /\ UNCHANGED <<config, now, pristine>>
    /\ UNCHANGED envVars

\* reportError that moves currentIndex on to an active key after it has
\* deactivated the current one
reportErrorAndMoveOn ==
    /\ TraceOpen
    /\ \E message \in Messages :
        /\ \A p \in 1..Len(apiKeys) :
              apiKeys[p].index = currentIndex =>
                  apiKeys[p].errorCount < config.maxErrorsPerKey + MaxExtraErrors
        /\ apiKeys' = Reported(apiKeys, currentIndex, message, config.maxErrorsPerKey)
        /\ ret' = Void("reportError", Some(message))
        /\ Log([method |-> "reportError", arg |-> Some(message)])
    /\ currentIndex' =
          LET activeKeys == ActiveKeysOf(apiKeys') IN
          IF Len(activeKeys) = 0 \/ FindIndex(activeKeys, currentIndex) >= 0
          THEN currentIndex
          ELSE activeKeys[1].index
    /\ pristine' = FALSE
    /\ rotations' = 0
    /\ UNCHANGED <<config, now>>
    /\ UNCHANGED envVars

reportError ==
    /\ TraceOpen
    /\ \E message \in Messages :
        /\ \A p \in 1..Len(apiKeys) :
              apiKeys[p].index = currentIndex =>
                  apiKeys[p].errorCount < config.maxErrorsPerKey + MaxExtraErrors
        /\ apiKeys' = Reported(apiKeys, currentIndex, message, config.maxErrorsPerKey)
        /\ ret' = Void("reportError", Some(message))
        /\ Log([method |-> "reportError", arg |-> Some(message)])
    /\ pristine' = FALSE
    /\ rotations' = 0
    /\ UNCHANGED <<currentIndex, config, now>>
    /\ UNCHANGED envVars

resetErrorCounts ==
    /\ TraceOpen
    /\ apiKeys' = ResetAll(apiKeys)
    /\ ret' = Void("resetErrorCounts", Undefined)
    /\ pristine' = FALSE
    /\ rotations' = 0
    /\ Log([method |-> "resetErrorCounts", arg |-> Undefined])
    /\ UNCHANGED <<currentIndex, config, now>>
    /\ UNCHANGED envVars

\* this.apiKeys.map(key => ({ ...key })): the snapshots, in index order
getAllApiKeysStatus == [p \in 1..Len(apiKeys) |-> apiKeys[p]]

getActiveKeyCount == Len(getActiveKeys)

getTotalKeyCount == Len(apiKeys)

\* time passes between two calls
Tick ==
    /\ now < MaxTime
    /\ now' = now + 1
    /\ UNCHANGED <<apiKeys, currentIndex, config, ret, pristine, rotations, trace>>
    /\ UNCHANGED envVars

Next ==
    \/ getCurrentApiKey
    \/ getCurrentApiKeyInfo
    \/ rotateApiKey
    \/ reportError
    \/ resetErrorCounts

NextClock ==
    \/ Next
    \/ Tick

\* the calls on one manager, all within one reading of the clock
Spec == Init /\ [][Next]_vars

\* the calls on one manager that deactivates at the first error, with time
\* passing between the calls
InitClock ==
    /\ \E keys \in KeyLists, cfg \in Configs :
          /\ cfg.maxErrorsPerKey = 1
          /\ Constructed(keys, cfg)
    /\ trace = [on |-> FALSE, ops |-> <<>>]
    /\ NoGlobal
    /\ NothingHeld
    /\ NoRequests
    /\ NotRotated

SpecClock == InitClock /\ [][NextClock]_vars

\* the first calls on new ApiKeyManager("k1;k2;k3"), recorded
InitScenario ==
    /\ Constructed(<<"k1", "k2", "k3">>, DefaultConfig)
    /\ trace = [on |-> TRUE, ops |-> <<>>]
    /\ NoGlobal
    /\ NothingHeld
    /\ NoRequests
    /\ NotRotated

SpecScenario == InitScenario /\ [][Next]_vars

-----------------------------------------------------------------------------
(* Strings: a JS string is the sequence of its characters *)

\* '*'.repeat(n)
Repeat(c, n) == [i \in 1..n |-> c]

\* the strings over an alphabet up to a length
StringsUpTo(alphabet, n) == UNION {[1..m -> alphabet] : m \in 0..n}

-----------------------------------------------------------------------------
(* maskApiKey *)

\* the longest key handed to maskApiKey
MaxKeyLength == 13

MaskAlphabet == {"a", "*"}
MaskInputs == StringsUpTo(MaskAlphabet, MaxKeyLength)

\* maskApiKey showing the key from twelve characters on
MaskedFromTwelve(apiKey) ==
    IF Len(apiKey) < 12
    THEN Repeat("*", Len(apiKey))
    ELSE SubSeq(apiKey, 1, 8) \o Repeat("*", Len(apiKey) - 12)
            \o SubSeq(apiKey, Len(apiKey) - 3, Len(apiKey))

\* substring(0, 8), the asterisks, substring(length - 4)
Masked(apiKey) ==
    IF Len(apiKey) <= 12
    THEN Repeat("*", Len(apiKey))
    ELSE SubSeq(apiKey, 1, 8) \o Repeat("*", Len(apiKey) - 12)
            \o SubSeq(apiKey, Len(apiKey) - 3, Len(apiKey))

maskApiKey ==
    /\ input # Undefined
    /\ ret' = Returned("maskApiKey", input, Masked(input[1]))
    /\ UNCHANGED <<apiKeys, currentIndex, config, now, pristine, rotations, trace>>
    /\ UNCHANGED envVars

\* a manager and a string to mask
InitMask ==
    /\ Constructed(<<"k1">>, DefaultConfig)
    /\ trace = [on |-> FALSE, ops |-> <<>>]
    /\ \E apiKey \in MaskInputs : input = Some(apiKey)
    /\ globalApiKeyManager = 0
    /\ instances = 0
    /\ NothingHeld
    /\ NoRequests
    /\ NotRotated

NextMask == maskApiKey

SpecMask == InitMask /\ [][NextMask]_vars

-----------------------------------------------------------------------------
(* Parsing of the key string *)

\* the characters String.prototype.trim removes (two of them)
Whitespace == {" ", "\t"}

\* String.prototype.trim
Trim(s) ==
    LET kept == {i \in 1..Len(s) : s[i] \notin Whitespace} IN
    IF kept = {}
    THEN <<>>
    ELSE SubSeq(s, CHOOSE i \in kept : \A j \in kept : i <= j,
                   CHOOSE i \in kept : \A j \in kept : i >= j)

\* String.prototype.split(';'): one piece more than there are separators
Split(s) ==
    LET seps == {i \in 1..Len(s) : s[i] = ";"}
        n == Cardinality(seps)
        Cut(k) == IF k = 0 THEN 0
                  ELSE IF k = n + 1 THEN Len(s) + 1
                  ELSE CHOOSE p \in seps : Cardinality({q \in seps : q < p}) = k - 1
    IN  [k \in 1..(n + 1) |-> SubSeq(s, Cut(k - 1) + 1, Cut(k) - 1)]

\* split(';').map(key => key.trim()) without the filter
SplitTrimmedUnfiltered(apiKeysString) ==
    LET pieces == Split(apiKeysString) IN
    [k \in 1..Len(pieces) |-> Trim(pieces[k])]

\* split(';').map(key => key.trim()).filter(key => key.length > 0)
SplitTrimmed(apiKeysString) ==
    LET pieces == Split(apiKeysString) IN
    SelectSeq([k \in 1..Len(pieces) |-> Trim(pieces[k])], LAMBDA key : Len(key) > 0)

NoApiKeysError == "No API keys provided"
NoValidApiKeysError == "No valid API keys found after parsing"

\* parseApiKeys: the error thrown, or the keys of the table
ParseApiKeys(apiKeysString) ==
    IF apiKeysString = <<>> \/ Trim(apiKeysString) = <<>>
    THEN [error |-> Some(NoApiKeysError), keys |-> <<>>]
    ELSE LET keys == SplitTrimmed(apiKeysString) IN
         IF Len(keys) = 0
         THEN [error |-> Some(NoValidApiKeysError), keys |-> <<>>]
         ELSE [error |-> Undefined, keys |-> keys]

\* `${invalidKeys.length} API key(s) appear to be invalid (...)`
InvalidKeysError(count) ==
    ToString(count) \o " API key(s) appear to be invalid (should be at least 8 characters)"

\* parseAndValidateApiKeys taking keys of exactly 8 characters for invalid
ParseAndValidateAboveEight(apiKeysString) ==
    IF apiKeysString = <<>> \/ Trim(apiKeysString) = <<>>
    THEN [isValid |-> FALSE, keyCount |-> 0, error |-> Some(NoApiKeysError)]
    ELSE LET keys == SplitTrimmed(apiKeysString) IN
         IF Len(keys) = 0
         THEN [isValid |-> FALSE, keyCount |-> 0, error |-> Some(NoValidApiKeysError)]
         ELSE LET invalidKeys == SelectSeq(keys, LAMBDA key : Len(key) <= 8) IN
              IF Len(invalidKeys) > 0
              THEN [isValid |-> FALSE, keyCount |-> Len(keys),
                    error |-> Some(InvalidKeysError(Len(invalidKeys)))]
              ELSE [isValid |-> TRUE, keyCount |-> Len(keys), error |-> Undefined]

\* parseAndValidateApiKeys of config/auth.ts
ParseAndValidate(apiKeysString) ==
    IF apiKeysString = <<>> \/ Trim(apiKeysString) = <<>>
    THEN [isValid |-> FALSE, keyCount |-> 0, error |-> Some(NoApiKeysError)]
    ELSE LET keys == SplitTrimmed(apiKeysString) IN
         IF Len(keys) = 0
         THEN [isValid |-> FALSE, keyCount |-> 0, error |-> Some(NoValidApiKeysError)]
         ELSE LET invalidKeys == SelectSeq(keys, LAMBDA key : Len(key) < 8) IN
              IF Len(invalidKeys) > 0
              THEN [isValid |-> FALSE, keyCount |-> Len(keys),
                    error |-> Some(InvalidKeysError(Len(invalidKeys)))]
              ELSE [isValid |-> TRUE, keyCount |-> Len(keys), error |-> Undefined]

\* the pieces the key strings are put together of: keys of 1, 7 and 8
\* characters, the separator and whitespace
Pieces ==
    { <<"a">>,
      <<"a", "a", "a", "a", "a", "a", "a">>,
      <<"a", "a", "a", "a", "a", "a", "a", "a">>,
      <<";">>, <<" ">>, <<"\t">> }

\* the most pieces in a key string
MaxPieces == 5

RECURSIVE Flatten(_)
Flatten(ps) == IF ps = <<>> THEN <<>> ELSE Head(ps) \o Flatten(Tail(ps))

KeyStrings == {Flatten(ps) : ps \in StringsUpTo(Pieces, MaxPieces)}

\* new ApiKeyManager(input): the fields of the new object, or the throw
construct ==
    /\ input # Undefined
    /\ LET parsed == ParseApiKeys(input[1]) IN
       IF parsed.error # Undefined
       THEN /\ ret' = Thrown("constructor", input, parsed.error[1])
            /\ UNCHANGED <<apiKeys, currentIndex, config, pristine, rotations>>
       ELSE /\ apiKeys' = MakeKeys(parsed.keys)
            /\ currentIndex' = 0
            /\ config' = DefaultConfig
            /\ pristine' = TRUE
            /\ rotations' = 0
            /\ ret' = Void("constructor", input)
    /\ UNCHANGED <<now, trace>>
    /\ UNCHANGED envVars

parseAndValidateApiKeys ==
    /\ input # Undefined
    /\ ret' = Returned("parseAndValidateApiKeys", input, ParseAndValidate(input[1]))
    /\ UNCHANGED <<apiKeys, currentIndex, config, now, pristine, rotations, trace>>
    /\ UNCHANGED envVars

\* getCurrentApiKey on the manager that was constructed
getCurrentApiKeyOfNew ==
    /\ Len(apiKeys) > 0
    /\ getCurrentApiKey

\* the string is given, no manager is constructed yet
InitParse ==
    /\ \E apiKeysString \in KeyStrings : input = Some(apiKeysString)
    /\ apiKeys = <<>>
    /\ currentIndex = 0
    /\ config = DefaultConfig
    /\ now = 0
    /\ ret = Void("none", Undefined)
    /\ pristine = TRUE
    /\ rotations = 0
    /\ trace = [on |-> FALSE, ops |-> <<>>]
    /\ globalApiKeyManager = 0
    /\ instances = 0
    /\ NothingHeld
    /\ NoRequests
    /\ NotRotated

NextParse ==
    \/ construct
    \/ parseAndValidateApiKeys
    \/ getCurrentApiKeyOfNew

SpecParse == InitParse /\ [][NextParse]_vars

-----------------------------------------------------------------------------
(* The global instance *)

\* the strings initializeApiKeyManager is called with
GlobalKeyStrings ==
    { <<>>, <<";">>, <<"a">>, <<"b", ";", "a">> }

\* the configurations initializeApiKeyManager is called with
GlobalConfigs == {DefaultConfig, [DefaultConfig EXCEPT !.maxErrorsPerKey = 1]}

\* the most managers initializeApiKeyManager creates
MaxInstances == 3

\* initializeApiKeyManager keeping a global instance that is already set
initializeApiKeyManagerOnce ==
    /\ \E apiKeysString \in GlobalKeyStrings, cfg \in GlobalConfigs :
        LET parsed == ParseApiKeys(apiKeysString) IN
        IF parsed.error # Undefined
        THEN /\ ret' = Thrown("initializeApiKeyManager", Some(apiKeysString),
                              parsed.error[1])
             /\ UNCHANGED <<apiKeys, currentIndex, config, pristine, rotations,
                            globalApiKeyManager, instances>>
        ELSE /\ instances < MaxInstances
             /\ instances' = instances + 1
             /\ IF globalApiKeyManager = 0
                THEN /\ apiKeys' = MakeKeys(parsed.keys)
                     /\ currentIndex' = 0
                     /\ config' = cfg
                     /\ pristine' = TRUE
                     /\ rotations' = 0
                     /\ globalApiKeyManager' = instances + 1
                ELSE UNCHANGED <<apiKeys, currentIndex, config, pristine,
                                 rotations, globalApiKeyManager>>
             /\ ret' = Returned("initializeApiKeyManager", Some(apiKeysString),
                                globalApiKeyManager')
    /\ UNCHANGED <<now, trace, input, held, paths, globalApiKeyRotated>>

\* initializeApiKeyManager that sets the global instance to null before it
\* constructs the new one
initializeApiKeyManagerClearing ==
    /\ \E apiKeysString \in GlobalKeyStrings, cfg \in GlobalConfigs :
        LET parsed == ParseApiKeys(apiKeysString) IN
        IF parsed.error # Undefined
        THEN /\ ret' = Thrown("initializeApiKeyManager", Some(apiKeysString),
                              parsed.error[1])
             /\ globalApiKeyManager' = 0
             /\ UNCHANGED <<apiKeys, currentIndex, config, pristine, rotations,
                            instances>>
        ELSE /\ instances < MaxInstances
             /\ instances' = instances + 1
             /\ apiKeys' = MakeKeys(parsed.keys)
             /\ currentIndex' = 0
             /\ config' = cfg
             /\ pristine' = TRUE
             /\ rotations' = 0
             /\ globalApiKeyManager' = instances + 1
             /\ ret' = Returned("initializeApiKeyManager", Some(apiKeysString),
                                instances + 1)
    /\ UNCHANGED <<now, trace, input, held, paths, globalApiKeyRotated>>

\* globalApiKeyManager = new ApiKeyManager(apiKeysString, config): a throw
\* of the constructor leaves the assignment undone
initializeApiKeyManager ==
    /\ \E apiKeysString \in GlobalKeyStrings, cfg \in GlobalConfigs :
        LET parsed == ParseApiKeys(apiKeysString) IN
        IF parsed.error # Undefined
        THEN /\ ret' = Thrown("initializeApiKeyManager", Some(apiKeysString),
                              parsed.error[1])
             /\ UNCHANGED <<apiKeys, currentIndex, config, pristine, rotations,
                            globalApiKeyManager, instances>>
        ELSE /\ instances < MaxInstances
             /\ instances' = instances + 1
             /\ apiKeys' = MakeKeys(parsed.keys)
             /\ currentIndex' = 0
             /\ config' = cfg
             /\ pristine' = TRUE
             /\ rotations' = 0
             /\ globalApiKeyManager' = instances + 1
             /\ ret' = Returned("initializeApiKeyManager", Some(apiKeysString),
                                instances + 1)
    /\ UNCHANGED <<now, trace, input, held, paths, globalApiKeyRotated>>

getApiKeyManager ==
    /\ ret' = Returned("getApiKeyManager", Undefined, globalApiKeyManager)
    /\ UNCHANGED <<apiKeys, currentIndex, config, now, pristine, rotations, trace>>
    /\ UNCHANGED envVars

hasMultipleApiKeys ==
    /\ ret' = Returned("hasMultipleApiKeys", Undefined,
                       IF globalApiKeyManager # 0 THEN getTotalKeyCount > 1 ELSE FALSE)
    /\ UNCHANGED <<apiKeys, currentIndex, config, now, pristine, rotations, trace>>
    /\ UNCHANGED envVars

\* the wrapper: reportError on the global instance, nothing without one
reportApiKeyError ==
    \/ /\ globalApiKeyManager = 0
       /\ \E message \in Messages : ret' = Void("reportApiKeyError", Some(message))
       /\ UNCHANGED <<apiKeys, currentIndex, config, now, pristine, rotations, trace>>
       /\ UNCHANGED envVars
    \/ /\ globalApiKeyManager # 0
       /\ reportError

\* what the rotateApiKey wrapper returns
NotRotatedResult == [rotated |-> FALSE, currentKey |-> Undefined, keyInfo |-> Undefined]
RotatedResult(newKey, keyInfo, total) ==
    [rotated |-> TRUE, currentKey |-> Some(newKey),
     keyInfo |-> Some([index |-> keyInfo.index + 1, total |-> total,
                       masked |-> Masked(newKey)])]

\* the rotateApiKey wrapper: nothing without a global manager of more than
\* one key; rotateApiKey and getCurrentApiKeyInfo of the manager, the flag
\* is set; a throw of the manager is caught
rotateApiKeyWrapper ==
    /\ IF globalApiKeyManager = 0 \/ getTotalKeyCount <= 1
       THEN /\ ret' = Returned("rotateApiKeyWrapper", Undefined, NotRotatedResult)
            /\ UNCHANGED <<apiKeys, currentIndex, rotations, globalApiKeyRotated>>
       ELSE /\ pristine => rotations < MaxRotations
            /\ LET activeKeys == getActiveKeys IN
               IF Len(activeKeys) = 0
               THEN /\ ret' = Returned("rotateApiKeyWrapper", Undefined, NotRotatedResult)
                    /\ UNCHANGED <<apiKeys, currentIndex, globalApiKeyRotated>>
               ELSE \E next \in StrategyNext(config.rotationStrategy, activeKeys,
                                             currentIndex) :
                    LET newKey  == CurrentOf(activeKeys, next)
                        stamped == Stamp(apiKeys, newKey.index, now)
                        keyInfo == CurrentOf(ActiveKeysOf(stamped), next)
                    IN  /\ currentIndex' = next
                        /\ apiKeys' = stamped
                        /\ globalApiKeyRotated' = TRUE
                        /\ ret' = Returned("rotateApiKeyWrapper", Undefined,
                                     RotatedResult(newKey.key, keyInfo, getTotalKeyCount))
            /\ rotations' = IF pristine THEN rotations + 1 ELSE rotations
    /\ UNCHANGED <<config, now, pristine, trace>>
    /\ UNCHANGED <<input, globalApiKeyManager, instances, held, paths>>

\* checkAndResetApiKeyRotation that leaves the flag set
checkApiKeyRotationOnly ==
    /\ ret' = Returned("checkAndResetApiKeyRotation", Undefined, globalApiKeyRotated)
    /\ UNCHANGED <<apiKeys, currentIndex, config, now, pristine, rotations, trace>>
    /\ UNCHANGED envVars

checkAndResetApiKeyRotation ==
    /\ ret' = Returned("checkAndResetApiKeyRotation", Undefined, globalApiKeyRotated)
    /\ globalApiKeyRotated' = FALSE
    /\ UNCHANGED <<apiKeys, currentIndex, config, now, pristine, rotations, trace>>
    /\ UNCHANGED <<input, globalApiKeyManager, instances, held, paths>>

\* the module is loaded: no global instance
InitGlobal ==
    /\ apiKeys = <<>>
    /\ currentIndex = 0
    /\ config = DefaultConfig
    /\ now = 0
    /\ ret = Void("none", Undefined)
    /\ pristine = TRUE
    /\ rotations = 0
    /\ trace = [on |-> FALSE, ops |-> <<>>]
    /\ NoGlobal
    /\ NothingHeld
    /\ NoRequests
    /\ NotRotated

NextGlobal ==
    \/ initializeApiKeyManager
    \/ getApiKeyManager
    \/ hasMultipleApiKeys
    \/ reportApiKeyError
    \/ rotateApiKeyWrapper
    \/ checkAndResetApiKeyRotation

SpecGlobal == InitGlobal /\ [][NextGlobal]_vars

-----------------------------------------------------------------------------
(* The array of getAllApiKeysStatus in the hands of a caller *)

\* the most changes a caller makes to one returned array
MaxChanges == 1

\* the call: a new array of new objects, { ...key } of every key
getAllApiKeysStatusCall ==
    /\ ret' = Returned("getAllApiKeysStatus", Undefined, getAllApiKeysStatus)
    /\ held' = [taken |-> TRUE, list |-> getAllApiKeysStatus, changes |-> 0]
    /\ UNCHANGED <<apiKeys, currentIndex, config, now, pristine, rotations, trace>>
    /\ UNCHANGED <<input, globalApiKeyManager, instances, paths, globalApiKeyRotated>>

\* the values a caller assigns to the fields of a returned object
Assigned(info) ==
    { [info EXCEPT !.isActive = ~@],
      [info EXCEPT !.errorCount = @ + 1],
      [info EXCEPT !.lastError = Some("changed")],
      [info EXCEPT !.lastUsed = Undefined] } \ {info}

\* an assignment that reaches the object of the table
assignInternalField ==
    /\ held.taken
    /\ held.changes < MaxChanges
    /\ \E p \in 1..Len(held.list) : \E info \in Assigned(held.list[p]) :
          /\ held' = [held EXCEPT !.list[p] = info, !.changes = @ + 1]
          /\ apiKeys' = [apiKeys EXCEPT ![p] = info]
          /\ ret' = Void("assign", Some(p))
    /\ UNCHANGED <<currentIndex, config, now, pristine, rotations, trace>>
    /\ UNCHANGED <<input, globalApiKeyManager, instances, paths, globalApiKeyRotated>>

\* status[p].field = value on the returned array: the object is the copy
assignSnapshotField ==
    /\ held.taken
    /\ held.changes < MaxChanges
    /\ \E p \in 1..Len(held.list) : \E info \in Assigned(held.list[p]) :
          /\ held' = [held EXCEPT !.list[p] = info, !.changes = @ + 1]
          /\ ret' = Void("assign", Some(p))
    /\ UNCHANGED <<apiKeys, currentIndex, config, now, pristine, rotations, trace>>
    /\ UNCHANGED <<input, globalApiKeyManager, instances, paths, globalApiKeyRotated>>

\* status.pop() on the returned array
popSnapshot ==
    /\ held.taken
    /\ held.changes < MaxChanges
    /\ Len(held.list) > 0
    /\ held' = [held EXCEPT !.list = SubSeq(@, 1, Len(@) - 1), !.changes = @ + 1]
    /\ ret' = Void("pop", Undefined)
    /\ UNCHANGED <<apiKeys, currentIndex, config, now, pristine, rotations, trace>>
    /\ UNCHANGED <<input, globalApiKeyManager, instances, paths, globalApiKeyRotated>>

\* status[p].lastUsed.setTime(t) right after the call: { ...key } copies the
\* reference, the Date object is the one the table holds
setTimeOfLastUsed ==
    /\ held.taken
    /\ held.changes < MaxChanges
    /\ ret.method = "getAllApiKeysStatus"
    /\ \E p \in 1..Len(held.list) : \E t \in 0..MaxTime :
          /\ held.list[p].lastUsed # Undefined
          /\ held.list[p].lastUsed # Some(t)
          /\ held' = [held EXCEPT !.list[p].lastUsed = Some(t), !.changes = @ + 1]
          /\ apiKeys' = [apiKeys EXCEPT ![p].lastUsed = Some(t)]
          /\ ret' = Void("setTime", Some(p))
    /\ UNCHANGED <<currentIndex, config, now, pristine, rotations, trace>>
    /\ UNCHANGED <<input, globalApiKeyManager, instances, paths, globalApiKeyRotated>>

\* two keys, deactivation at the first error
InitStatus ==
    /\ Constructed(<<"k1", "k2">>, [DefaultConfig EXCEPT !.maxErrorsPerKey = 1])
    /\ trace = [on |-> FALSE, ops |-> <<>>]
    /\ NoGlobal
    /\ NothingHeld
    /\ NoRequests
    /\ NotRotated

NextStatus ==
    \/ getCurrentApiKey
    \/ getCurrentApiKeyInfo
    \/ rotateApiKey
    \/ reportError
    \/ getAllApiKeysStatusCall
    \/ assignSnapshotField
    \/ popSnapshot
    \/ setTimeOfLastUsed

SpecStatus == InitStatus /\ [][NextStatus]_vars

-----------------------------------------------------------------------------
(* Requests sharing the global manager *)

\* generateContent of the dynamic client on path i: getCurrentApiKey, then
\* the request is sent with the key and the path waits for the answer
generateContent(i) ==
    /\ paths[i].pc = "idle"
    /\ LET activeKeys == getActiveKeys IN
       IF Len(activeKeys) = 0
       THEN /\ ret' = Thrown("getCurrentApiKey", Some(i), NoActiveKeysError)
            /\ UNCHANGED <<apiKeys, paths>>
       ELSE LET currentKey == CurrentOf(activeKeys, currentIndex) IN
            /\ apiKeys' = Stamp(apiKeys, currentKey.index, now)
            /\ ret' = Returned("getCurrentApiKey", Some(i), currentKey.key)
            /\ paths' = [paths EXCEPT ![i] = [pc |-> "waiting",
                                              index |-> Some(currentKey.index)]]
    /\ UNCHANGED <<currentIndex, config, now, pristine, rotations, trace>>
    /\ UNCHANGED <<input, globalApiKeyManager, instances, held, globalApiKeyRotated>>

\* the request of path i is answered
requestSucceeds(i) ==
    /\ paths[i].pc = "waiting"
    /\ paths' = [paths EXCEPT ![i] = [pc |-> "idle", index |-> Undefined]]
    /\ ret' = Void("response", Some(i))
    /\ UNCHANGED <<apiKeys, currentIndex, config, now, pristine, rotations, trace>>
    /\ UNCHANGED <<input, globalApiKeyManager, instances, held, globalApiKeyRotated>>

\* the request of path i fails: reportApiKeyError(message), which is
\* reportError on the global manager
requestFails(i) ==
    /\ paths[i].pc = "waiting"
    /\ globalApiKeyManager # 0
    /\ \E message \in Messages :
        /\ \A p \in 1..Len(apiKeys) :
              apiKeys[p].index = currentIndex =>
                  apiKeys[p].errorCount < config.maxErrorsPerKey + MaxExtraErrors
        /\ apiKeys' = Reported(apiKeys, currentIndex, message, config.maxErrorsPerKey)
        /\ ret' = Void("reportApiKeyError", Some(message))
    /\ paths' = [paths EXCEPT ![i] = [pc |-> "idle", index |-> Undefined]]
    /\ pristine' = FALSE
    /\ rotations' = 0
    /\ UNCHANGED <<currentIndex, config, now, trace>>
    /\ UNCHANGED <<input, globalApiKeyManager, instances, held, globalApiKeyRotated>>

\* the global manager of two or three keys, round-robin, shared by the paths
InitPaths ==
    /\ \E keys \in KeyLists, cfg \in Configs :
          /\ Len(keys) > 1
          /\ cfg.rotationStrategy = "round-robin"
          /\ Constructed(keys, cfg)
    /\ trace = [on |-> FALSE, ops |-> <<>>]
    /\ input = Undefined
    /\ globalApiKeyManager = 1
    /\ instances = 1
    /\ NothingHeld
    /\ NoRequests
    /\ NotRotated

NextPaths ==
    \/ \E i \in Paths : generateContent(i)
    \/ \E i \in Paths : requestSucceeds(i)
    \/ \E i \in Paths : requestFails(i)
    \/ rotateApiKey

SpecPaths == InitPaths /\ [][NextPaths]_vars

-----------------------------------------------------------------------------
(* The methods that only read, called next to the others *)

\* getAllApiKeysStatus by a caller that reads the array and drops it
getAllApiKeysStatusRead ==
    /\ ret' = Returned("getAllApiKeysStatus", Undefined, getAllApiKeysStatus)
    /\ UNCHANGED <<apiKeys, currentIndex, config, now, pristine, rotations, trace>>
    /\ UNCHANGED envVars

getActiveKeyCountCall ==
    /\ ret' = Returned("getActiveKeyCount", Undefined, getActiveKeyCount)
    /\ UNCHANGED <<apiKeys, currentIndex, config, now, pristine, rotations, trace>>
    /\ UNCHANGED envVars

getTotalKeyCountCall ==
    /\ ret' = Returned("getTotalKeyCount", Undefined, getTotalKeyCount)
    /\ UNCHANGED <<apiKeys, currentIndex, config, now, pristine, rotations, trace>>
    /\ UNCHANGED envVars

\* the thresholds of the managers on which every method is called
FrameThresholds == {1, 2}

\* a manager of one to three keys and a key to mask
InitFrame ==
    /\ \E keys \in KeyLists, cfg \in Configs :
          /\ cfg.maxErrorsPerKey \in FrameThresholds
          /\ Constructed(keys, cfg)
    /\ trace = [on |-> FALSE, ops |-> <<>>]
    /\ input = Some(<<"a", "b">>)
    /\ globalApiKeyManager = 0
    /\ instances = 0
    /\ NothingHeld
    /\ NoRequests
    /\ NotRotated

NextFrame ==
    \/ getCurrentApiKey
    \/ getCurrentApiKeyInfo
    \/ rotateApiKey
    \/ reportError
    \/ resetErrorCounts
    \/ getAllApiKeysStatusRead
    \/ getActiveKeyCountCall
    \/ getTotalKeyCountCall
    \/ maskApiKey

SpecFrame == InitFrame /\ [][NextFrame]_vars

-----------------------------------------------------------------------------
(* A manager on which rotateApiKey is never called *)

NextNoRotate ==
    \/ getCurrentApiKey
    \/ getCurrentApiKeyInfo
    \/ reportError
    \/ getAllApiKeysStatusRead
    \/ getActiveKeyCountCall
    \/ getTotalKeyCountCall

SpecNoRotate == Init /\ [][NextNoRotate]_vars

-----------------------------------------------------------------------------
(* validateAuthMethod of config/auth.ts *)

\* keys of 8 characters and a key that is too short
LongKeyA == <<"a", "a", "a", "a", "a", "a", "a", "a">>
LongKeyB == <<"b", "b", "b", "b", "b", "b", "b", "b">>
ShortKey == <<"a", "b">>

\* the values of process.env.GEMINI_API_KEY: not set, or a string
EnvValues ==
    { Undefined,
      Some(<<>>),
      Some(<<";">>),
      Some(ShortKey),
      Some(LongKeyA),
      Some(LongKeyA \o <<";">> \o ShortKey),
      Some(LongKeyA \o <<";">> \o LongKeyB),
      Some(<<" ">> \o LongKeyB \o <<" ", ";", ";">> \o LongKeyA) }

AuthMethods == {"LOGIN_WITH_GOOGLE", "USE_GEMINI"}

KeyNotFoundMessage ==
    "GEMINI_API_KEY environment variable not found. Add that to your environment and try again (no reload needed if using .env)!"
InvalidFormatMessage(error) == "Invalid GEMINI_API_KEY format: " \o error
FailedToInitializeMessage(error) == "Failed to initialize API key manager: " \o error

\* validateAuthMethod that initialises the manager for a single key as well
validateAuthMethodAnyCount ==
    /\ \E authMethod \in AuthMethods, env \in EnvValues :
        LET arg == Some([authMethod |-> authMethod, env |-> env]) IN
        IF authMethod = "LOGIN_WITH_GOOGLE"
        THEN /\ ret' = Returned("validateAuthMethod", arg, Undefined)
             /\ UNCHANGED <<apiKeys, currentIndex, config, pristine, rotations,
                            globalApiKeyManager, instances>>
        ELSE IF env = Undefined \/ env[1] = <<>>
        THEN /\ ret' = Returned("validateAuthMethod", arg, Some(KeyNotFoundMessage))
             /\ UNCHANGED <<apiKeys, currentIndex, config, pristine, rotations,
                            globalApiKeyManager, instances>>
        ELSE LET validation == ParseAndValidate(env[1])
                 parsed     == ParseApiKeys(env[1])
             IN  IF ~validation.isValid
                 THEN /\ ret' = Returned("validateAuthMethod", arg,
                                         Some(InvalidFormatMessage(validation.error[1])))
                      /\ UNCHANGED <<apiKeys, currentIndex, config, pristine, rotations,
                                     globalApiKeyManager, instances>>
                 ELSE IF validation.keyCount > 0
                 THEN IF parsed.error # Undefined
                      THEN /\ ret' = Returned("validateAuthMethod", arg,
                                        Some(FailedToInitializeMessage(parsed.error[1])))
                           /\ UNCHANGED <<apiKeys, currentIndex, config, pristine,
                                          rotations, globalApiKeyManager, instances>>
                      ELSE /\ instances < MaxInstances
                           /\ instances' = instances + 1
                           /\ apiKeys' = MakeKeys(parsed.keys)
                           /\ currentIndex' = 0
                           /\ config' = DefaultConfig
                           /\ pristine' = TRUE
                           /\ rotations' = 0
                           /\ globalApiKeyManager' = instances + 1
                           /\ ret' = Returned("validateAuthMethod", arg, Undefined)
                 ELSE /\ ret' = Returned("validateAuthMethod", arg, Undefined)
                      /\ UNCHANGED <<apiKeys, currentIndex, config, pristine, rotations,
                                     globalApiKeyManager, instances>>
    /\ UNCHANGED <<now, trace, input, held, paths, globalApiKeyRotated>>

\* validateAuthMethod(authMethod) with GEMINI_API_KEY as the environment has
\* it: the message returned, or null; for more than one key the global
\* manager is initialised
validateAuthMethod ==
    /\ \E authMethod \in AuthMethods, env \in EnvValues :
        LET arg == Some([authMethod |-> authMethod, env |-> env]) IN
        IF authMethod = "LOGIN_WITH_GOOGLE"
        THEN /\ ret' = Returned("validateAuthMethod", arg, Undefined)
             /\ UNCHANGED <<apiKeys, currentIndex, config, pristine, rotations,
                            globalApiKeyManager, instances>>
        ELSE IF env = Undefined \/ env[1] = <<>>
        THEN /\ ret' = Returned("validateAuthMethod", arg, Some(KeyNotFoundMessage))
             /\ UNCHANGED <<apiKeys, currentIndex, config, pristine, rotations,
                            globalApiKeyManager, instances>>
        ELSE LET validation == ParseAndValidate(env[1])
                 parsed     == ParseApiKeys(env[1])
             IN  IF ~validation.isValid
                 THEN /\ ret' = Returned("validateAuthMethod", arg,
                                         Some(InvalidFormatMessage(validation.error[1])))
                      /\ UNCHANGED <<apiKeys, currentIndex, config, pristine, rotations,
                                     globalApiKeyManager, instances>>
                 ELSE IF validation.keyCount > 1
                 THEN IF parsed.error # Undefined
                      THEN /\ ret' = Returned("validateAuthMethod", arg,
                                        Some(FailedToInitializeMessage(parsed.error[1])))
                           /\ UNCHANGED <<apiKeys, currentIndex, config, pristine,
                                          rotations, globalApiKeyManager, instances>>
                      ELSE /\ instances < MaxInstances
                           /\ instances' = instances + 1
                           /\ apiKeys' = MakeKeys(parsed.keys)
                           /\ currentIndex' = 0
                           /\ config' = DefaultConfig
                           /\ pristine' = TRUE
                           /\ rotations' = 0
                           /\ globalApiKeyManager' = instances + 1
                           /\ ret' = Returned("validateAuthMethod", arg, Undefined)
                 ELSE /\ ret' = Returned("validateAuthMethod", arg, Undefined)
                      /\ UNCHANGED <<apiKeys, currentIndex, config, pristine, rotations,
                                     globalApiKeyManager, instances>>
    /\ UNCHANGED <<now, trace, input, held, paths, globalApiKeyRotated>>

NextAuth ==
    \/ validateAuthMethod
    \/ getApiKeyManager
    \/ reportApiKeyError
    \/ rotateApiKeyWrapper

SpecAuth == InitGlobal /\ [][NextAuth]_vars

----------------------------------------------------------------------------
(* Vocabulary of the properties *)

\* the step is a call of the method (Tick alone moves the clock)
IsCall(method) == ret'.method = method /\ now' = now

\* the positions of the table
Positions(keys) == 1..Len(keys)

\* the number of credentials whose active flag is set
CountActive(keys) == Cardinality({p \in Positions(keys) : keys[p].isActive})

\* the position of the active credential with the lowest index
LowestActive(keys) ==
    CHOOSE p \in Positions(keys) :
        /\ keys[p].isActive
        /\ \A q \in Positions(keys) : keys[q].isActive => keys[p].index <= keys[q].index

\* the position of the credential with index idx
PositionOf(keys, idx) == CHOOSE p \in Positions(keys) : keys[p].index = idx

----------------------------------------------------------------------------
(* C1: on a manager under round-robin on which neither reportError nor     *)
(* resetErrorCounts was called since construction, the i-th call of        *)
(* rotateApiKey returns the key with index i mod N and makes it current.   *)
C1_RoundRobinFresh ==
    (/\ pristine
     /\ config.rotationStrategy = "round-robin"
     /\ ret.method = "rotateApiKey")
    => /\ rotations >= 1
       /\ currentIndex = rotations % Len(apiKeys)
       /\ apiKeys[PositionOf(apiKeys, currentIndex)].index = rotations % Len(apiKeys)
       /\ ret.value = Some(apiKeys[PositionOf(apiKeys, rotations % Len(apiKeys))].key)

\* the fifth rotation of three keys: indices 1,2,0,1,2
C1_Witness ==
    /\ pristine
    /\ config.rotationStrategy = "round-robin"
    /\ ret.method = "rotateApiKey"
    /\ Len(apiKeys) = 3
    /\ rotations = 5
    /\ currentIndex = 2
    /\ ret.value = Some("k3")

(* C2: each reportError adds one to the errorCount of the credential at    *)
(* currentIndex; the credential stays active while the count is below      *)
(* maxErrorsPerKey, goes from active to inactive on the call that makes    *)
(* the count equal to maxErrorsPerKey, the number of active credentials    *)
(* then going down by exactly one, and a call on an inactive credential    *)
(* adds one to the count and changes no active flag.                       *)
C2_DeactivationAtThreshold ==
    [][ IsCall("reportError") =>
        LET p      == PositionOf(apiKeys, currentIndex)
            before == apiKeys[p]
            after  == apiKeys'[p]
            max    == config.maxErrorsPerKey
        IN  /\ after.errorCount = before.errorCount + 1
            /\ after.errorCount < max =>
                  /\ before.isActive /\ after.isActive
                  /\ CountActive(apiKeys') = CountActive(apiKeys)
            /\ after.errorCount = max =>
                  /\ before.isActive /\ ~after.isActive
                  /\ CountActive(apiKeys') = CountActive(apiKeys) - 1
            /\ ~before.isActive =>
                  /\ ~after.isActive
                  /\ CountActive(apiKeys') = CountActive(apiKeys)
      ]_vars

\* a further reportError on the credential deactivated at the threshold
C2_Witness ==
    /\ ret.method = "reportError"
    /\ config.maxErrorsPerKey = 2
    /\ Len(apiKeys) = 3
    /\ apiKeys[PositionOf(apiKeys, currentIndex)].errorCount = 3
    /\ ~apiKeys[PositionOf(apiKeys, currentIndex)].isActive
    /\ CountActive(apiKeys) = 2

(* C3: with an active credential left, reportError adds one to the         *)
(* errorCount, and sets the lastError, of the credential getCurrentApiKey  *)
(* returns in that state.                                                  *)
C3_ReportChargesCurrentKey ==
    [][ (IsCall("reportError") /\ CountActive(apiKeys) > 0) =>
        LET used == CurrentOf(getActiveKeys, currentIndex)
            p    == PositionOf(apiKeys, used.index)
        IN  /\ apiKeys'[p].errorCount = apiKeys[p].errorCount + 1
            /\ apiKeys'[p].lastError = ret'.arg
      ]_vars

(* C4: every credential is active exactly when its errorCount is below     *)
(* maxErrorsPerKey (maxErrorsPerKey >= 1), in every state reached by       *)
(* getCurrentApiKey, getCurrentApiKeyInfo, rotateApiKey, reportError and   *)
(* resetErrorCounts; an inactive credential becomes active only in a step  *)
(* of resetErrorCounts.                                                    *)
C4_HealthInvariant ==
    /\ [](config.maxErrorsPerKey >= 1 =>
            \A p \in Positions(apiKeys) :
                apiKeys[p].isActive <=> apiKeys[p].errorCount < config.maxErrorsPerKey)
    /\ [][ \A p \in Positions(apiKeys) :
              (~apiKeys[p].isActive /\ apiKeys'[p].isActive) => IsCall("resetErrorCounts")
         ]_vars

\* one credential deactivated at the threshold, another with errors below it
C4_Witness ==
    /\ config.maxErrorsPerKey = 3
    /\ \E p, q \in Positions(apiKeys) :
          /\ ~apiKeys[p].isActive /\ apiKeys[p].errorCount = 3
          /\ apiKeys[q].isActive /\ apiKeys[q].errorCount = 2

\* no credential is active
Exhausted(keys) == \A p \in Positions(keys) : ~keys[p].isActive

(* C5: when no credential is active, getCurrentApiKey,                     *)
(* getCurrentApiKeyInfo and rotateApiKey throw the no-active-keys error    *)
(* and change neither currentIndex nor the table; the state stays          *)
(* exhausted across every step that is not resetErrorCounts.               *)
C5_Exhaustion ==
    [][ Exhausted(apiKeys) =>
        /\ (\/ IsCall("getCurrentApiKey")
            \/ IsCall("getCurrentApiKeyInfo")
            \/ IsCall("rotateApiKey")) =>
              /\ ret'.value = Undefined
              /\ \E e \in NoActiveCredentials : ret'.error = Some(e)
              /\ apiKeys' = apiKeys
              /\ currentIndex' = currentIndex
        /\ ~IsCall("resetErrorCounts") => Exhausted(apiKeys')
      ]_vars

\* rotateApiKey has thrown on three keys that are all inactive
C5_Witness ==
    /\ Len(apiKeys) = 3
    /\ Exhausted(apiKeys)
    /\ ret.method = "rotateApiKey"
    /\ ret.error = Some(NoActiveKeysForRotationError)

\* the first n recorded calls are reportError
FirstReports(n) ==
    /\ Len(trace.ops) >= n
    /\ \A i \in 1..n : trace.ops[i].method = "reportError"

(* C6: on new ApiKeyManager("k1;k2;k3") with the default configuration,    *)
(* three reportError calls deactivate the credential with index 0; a       *)
(* rotateApiKey call made next returns k2 (index 1), and the status then   *)
(* shows two active credentials and one inactive, whose lastError is the   *)
(* message of the third reportError.                                       *)
C6_EndToEnd ==
    /\ (Len(trace.ops) = 3 /\ FirstReports(3)) =>
          /\ ~apiKeys[1].isActive
          /\ apiKeys[1].index = 0
    /\ (/\ Len(trace.ops) = 4
        /\ FirstReports(3)
        /\ trace.ops[4].method = "rotateApiKey") =>
          LET status   == getAllApiKeysStatus
              inactive == {p \in Positions(status) : ~status[p].isActive}
              active   == {p \in Positions(status) : status[p].isActive}
          IN  /\ ret.value = Some("k2")
              /\ currentIndex = 1
              /\ Cardinality(active) = 2
              /\ Cardinality(inactive) = 1
              /\ \A p \in inactive : status[p].lastError = trace.ops[3].arg

\* the scenario with the third message different from the first two
C6_Witness ==
    /\ Len(trace.ops) = 4
    /\ FirstReports(3)
    /\ trace.ops[1].arg = Some("Error 1")
    /\ trace.ops[3].arg = Some("Error 2")
    /\ trace.ops[4].method = "rotateApiKey"
    /\ ret.value = Some("k2")

(* C7: after resetErrorCounts every credential has errorCount 0, is active *)
(* and has no lastError, the active count equals the total count, and a    *)
(* second resetErrorCounts would leave the table as it is.                 *)
C7_Reset ==
    ret.method = "resetErrorCounts" =>
        /\ \A p \in Positions(apiKeys) :
              /\ apiKeys[p].errorCount = 0
              /\ apiKeys[p].isActive
              /\ apiKeys[p].lastError = Undefined
        /\ getActiveKeyCount = getTotalKeyCount
        /\ ResetAll(apiKeys) = apiKeys

\* a reset of three keys after calls that used the second key
C7_Witness ==
    /\ ret.method = "resetErrorCounts"
    /\ Len(apiKeys) = 3
    /\ currentIndex = 1
    /\ apiKeys[2].lastUsed # Undefined
    /\ CountActive(apiKeys) = 3

(* C8: under least-errors a successful rotateApiKey makes current an       *)
(* active credential whose errorCount is the smallest among the active     *)
(* ones, and of those with that errorCount the one with the lowest index.  *)
C8_LeastErrors ==
    (/\ config.rotationStrategy = "least-errors"
     /\ ret.method = "rotateApiKey"
     /\ ret.error = Undefined)
    => LET p == PositionOf(apiKeys, currentIndex) IN
       /\ apiKeys[p].isActive
       /\ ret.value = Some(apiKeys[p].key)
       /\ \A q \in Positions(apiKeys) :
             apiKeys[q].isActive =>
                /\ apiKeys[p].errorCount <= apiKeys[q].errorCount
                /\ apiKeys[p].errorCount = apiKeys[q].errorCount =>
                      apiKeys[p].index <= apiKeys[q].index

\* error counts [2,2,0], all active: index 2 is chosen
C8_Witness ==
    /\ config.rotationStrategy = "least-errors"
    /\ ret.method = "rotateApiKey"
    /\ Len(apiKeys) = 3
    /\ \A p \in Positions(apiKeys) : apiKeys[p].isActive
    /\ apiKeys[1].errorCount = 2
    /\ apiKeys[2].errorCount = 2
    /\ apiKeys[3].errorCount = 0
    /\ currentIndex = 2

(* C9: the table always holds the keys given at construction, in input     *)
(* order, with index values 0..N-1, and no step changes the length of the  *)
(* table or the key or index of a credential.                              *)
C9_IndexStability ==
    /\ [](/\ [p \in Positions(apiKeys) |-> apiKeys[p].key] \in KeyLists
          /\ \A p \in Positions(apiKeys) : apiKeys[p].index = p - 1)
    /\ [][ /\ Len(apiKeys') = Len(apiKeys)
           /\ \A p \in Positions(apiKeys) :
                 /\ apiKeys'[p].key = apiKeys[p].key
                 /\ apiKeys'[p].index = apiKeys[p].index
         ]_vars

\* three keys after rotations, error reports and a deactivation
C9_Witness ==
    /\ Len(apiKeys) = 3
    /\ currentIndex = 2
    /\ ~apiKeys[2].isActive
    /\ apiKeys[3].errorCount > 0
    /\ apiKeys[1].lastUsed # Undefined

(* C10: with an active credential left, getCurrentApiKey returns the       *)
(* credential at currentIndex when it is active and the active credential  *)
(* with the lowest index otherwise; it sets the lastUsed of that           *)
(* credential to the time of the call and changes nothing else of the      *)
(* table, nor currentIndex.                                                *)
C10_GetCurrent ==
    [][ (IsCall("getCurrentApiKey") /\ CountActive(apiKeys) > 0) =>
        LET c == PositionOf(apiKeys, currentIndex)
            p == IF apiKeys[c].isActive THEN c ELSE LowestActive(apiKeys)
        IN  /\ ret'.value = Some(apiKeys[p].key)
            /\ ret'.error = Undefined
            /\ apiKeys' = [apiKeys EXCEPT ![p].lastUsed = Some(now)]
            /\ currentIndex' = currentIndex
      ]_vars

\* the fallback: index 0 is current and inactive, index 1 inactive too, and
\* index 2 is returned and stamped later than index 0 was
C10_Witness ==
    /\ ret.method = "getCurrentApiKey"
    /\ Len(apiKeys) = 3
    /\ currentIndex = 0
    /\ ~apiKeys[1].isActive
    /\ ~apiKeys[2].isActive
    /\ ret.value = Some("k3")
    /\ apiKeys[1].lastUsed = Some(0)
    /\ apiKeys[3].lastUsed = Some(1)
    /\ now = 1

(* C11: getCurrentApiKeyInfo returns the credential getCurrentApiKey would  *)
(* return in the same state (the one at currentIndex when it is active,    *)
(* the active one with the lowest index otherwise), throws in the states   *)
(* where getCurrentApiKey throws (no active credential), and changes       *)
(* neither the table, lastUsed included, nor currentIndex nor the          *)
(* configuration.                                                          *)
C11_GetCurrentInfoReadOnly ==
    [][ IsCall("getCurrentApiKeyInfo") =>
        /\ apiKeys' = apiKeys
        /\ currentIndex' = currentIndex
        /\ config' = config
        /\ CountActive(apiKeys) = 0 =>
              /\ ret'.value = Undefined
              /\ ret'.error = Some(NoActiveKeysError)
        /\ CountActive(apiKeys) > 0 =>
              LET c == PositionOf(apiKeys, currentIndex)
                  p == IF apiKeys[c].isActive THEN c ELSE LowestActive(apiKeys)
              IN  /\ ret'.value = Some(apiKeys[p])
                  /\ ret'.error = Undefined
      ]_vars

\* the info of the fallback credential, read after it was stamped earlier
C11_Witness ==
    /\ ret.method = "getCurrentApiKeyInfo"
    /\ Len(apiKeys) = 3
    /\ currentIndex = 0
    /\ ~apiKeys[1].isActive
    /\ ret.value = Some(apiKeys[2])
    /\ apiKeys[2].lastUsed = Some(0)
    /\ now = 1

(* C12: no errorCount is negative; in a step that is not resetErrorCounts  *)
(* every errorCount stays or grows by exactly one, and it grows only in    *)
(* reportError and only for the credential at currentIndex.                *)
C12_ErrorCountMonotone ==
    /\ [](\A p \in Positions(apiKeys) : apiKeys[p].errorCount >= 0)
    /\ [][ ~IsCall("resetErrorCounts") =>
           \A p \in Positions(apiKeys) :
              /\ \/ apiKeys'[p].errorCount = apiKeys[p].errorCount
                 \/ apiKeys'[p].errorCount = apiKeys[p].errorCount + 1
              /\ apiKeys'[p].errorCount # apiKeys[p].errorCount =>
                    /\ IsCall("reportError")
                    /\ apiKeys[p].index = currentIndex
         ]_vars

\* errors charged to two credentials, the current one beyond its threshold
C12_Witness ==
    /\ ret.method = "reportError"
    /\ Len(apiKeys) = 3
    /\ currentIndex = 1
    /\ apiKeys[1].errorCount = 1
    /\ apiKeys[2].errorCount = 3
    /\ config.maxErrorsPerKey = 2

(* C19: under round-robin, when at least two credentials are active, the    *)
(* key returned by rotateApiKey differs from the key that the call of      *)
(* getCurrentApiKey immediately before it returned.                        *)
C19_RotateSwitches ==
    [][ ( /\ ret.method = "getCurrentApiKey"
          /\ ret.error = Undefined
          /\ IsCall("rotateApiKey")
          /\ config.rotationStrategy = "round-robin"
          /\ CountActive(apiKeys) >= 2 ) =>
        /\ ret'.error = Undefined
        /\ ret'.value # ret.value
      ]_vars

(* C16: the result of maskApiKey has the length of its argument; for an     *)
(* argument of at most 12 characters it is all asterisks, for a longer one *)
(* it is the first 8 characters, then length - 12 asterisks, then the last *)
(* 4 characters.                                                           *)
C16_MaskFormula ==
    ret.method = "maskApiKey" =>
        LET v == ret.arg[1]
            m == ret.value[1]
            n == Len(v)
        IN  /\ Len(m) = n
            /\ n <= 12 => \A i \in 1..n : m[i] = "*"
            /\ n > 12 => \A i \in 1..n :
                  m[i] = IF i <= 8 \/ i > n - 4 THEN v[i] ELSE "*"

\* a 13-character key whose ninth character is covered
C16_Witness ==
    /\ ret.method = "maskApiKey"
    /\ Len(ret.arg[1]) = 13
    /\ ret.arg[1][9] = "a"
    /\ ret.value[1] = <<"a", "*", "a", "a", "*", "a", "a", "a", "*",
                        "a", "a", "*", "a">>

(* C17: for every key longer than 12 characters, over any alphabet ('*'    *)
(* included), the result of maskApiKey differs from the key.               *)
C17_MaskHides ==
    (ret.method = "maskApiKey" /\ Len(ret.arg[1]) > 12) =>
        ret.value[1] # ret.arg[1]

\* whitespace as the properties name it
Blank == {" ", "\t"}

RECURSIVE StripLeft(_)
StripLeft(s) == IF s # <<>> /\ Head(s) \in Blank THEN StripLeft(Tail(s)) ELSE s

RECURSIVE StripRight(_)
StripRight(s) ==
    IF s # <<>> /\ s[Len(s)] \in Blank THEN StripRight(SubSeq(s, 1, Len(s) - 1)) ELSE s

\* the segment read so far, if something is left of it after stripping
Kept(segment) ==
    LET t == StripRight(StripLeft(segment)) IN IF t = <<>> THEN <<>> ELSE <<t>>

\* the non-empty trimmed ';'-segments of s in input order, read left to right
RECURSIVE SegmentsFrom(_, _)
SegmentsFrom(s, segment) ==
    IF s = <<>> THEN Kept(segment)
    ELSE IF Head(s) = ";" THEN Kept(segment) \o SegmentsFrom(Tail(s), <<>>)
    ELSE SegmentsFrom(Tail(s), Append(segment, Head(s)))

Segments(s) == SegmentsFrom(s, <<>>)

\* empty or whitespace only
IsBlank(s) == \A i \in 1..Len(s) : s[i] \in Blank

(* C13: construction from a string throws 'No API keys provided' when the  *)
(* string is empty or whitespace only, throws 'No valid API keys found     *)
(* after parsing' when no non-empty trimmed ';'-segment is left, and       *)
(* otherwise makes the table of exactly these segments in input order,     *)
(* indexed from 0, each active with errorCount 0, with currentIndex 0; a   *)
(* getCurrentApiKey right after it returns the first segment.              *)
C13_ParseAndConstruct ==
    /\ [][ IsCall("constructor") =>
           LET raw  == input[1]
               segs == Segments(raw)
           IN  /\ IsBlank(raw) =>
                     /\ ret'.error = Some("No API keys provided")
                     /\ apiKeys' = apiKeys
               /\ (~IsBlank(raw) /\ segs = <<>>) =>
                     /\ ret'.error = Some("No valid API keys found after parsing")
                     /\ apiKeys' = apiKeys
               /\ segs # <<>> =>
                     /\ ret'.error = Undefined
                     /\ Len(apiKeys') = Len(segs)
                     /\ \A p \in 1..Len(segs) :
                           /\ apiKeys'[p].key = segs[p]
                           /\ apiKeys'[p].index = p - 1
                           /\ apiKeys'[p].isActive
                           /\ apiKeys'[p].errorCount = 0
                     /\ currentIndex' = 0
         ]_vars
    /\ [][ ( /\ ret.method = "constructor"
             /\ ret.error = Undefined
             /\ IsCall("getCurrentApiKey") ) =>
           ret'.value = Some(Segments(input[1])[1])
         ]_vars

\* two keys out of a string with an empty segment and whitespace around a key
C13_Witness ==
    /\ ret.method = "getCurrentApiKey"
    /\ input = Some(<<"a", "\t", ";", ";", "a", "a", "a", "a", "a", "a", "a">>)
    /\ Len(apiKeys) = 2
    /\ ret.value = Some(<<"a">>)
    /\ apiKeys[2].key = <<"a", "a", "a", "a", "a", "a", "a">>

(* C18: parseAndValidateApiKeys returns as keyCount the number of non-empty *)
(* trimmed ';'-segments of the string, 0 with 'No API keys provided' for   *)
(* an empty or whitespace-only string and 0 with 'No valid API keys found  *)
(* after parsing' when no segment is left; isValid holds exactly when      *)
(* there is a segment and every segment has at least 8 characters.  A      *)
(* construction from the same string right after it succeeds with a table  *)
(* of keyCount keys when keyCount > 0 and throws the validator's message   *)
(* when keyCount = 0.                                                      *)
C18_ValidatorParsesAlike ==
    /\ [](ret.method = "parseAndValidateApiKeys" =>
            LET raw  == ret.arg[1]
                segs == Segments(raw)
                r    == ret.value[1]
            IN  /\ r.keyCount = Len(segs)
                /\ IsBlank(raw) => r.error = Some("No API keys provided")
                /\ (~IsBlank(raw) /\ segs = <<>>) =>
                      r.error = Some("No valid API keys found after parsing")
                /\ r.isValid <=>
                      /\ Len(segs) >= 1
                      /\ \A p \in 1..Len(segs) : Len(segs[p]) >= 8)
    /\ [][ ( /\ ret.method = "parseAndValidateApiKeys"
             /\ IsCall("constructor")
             /\ ret'.arg = ret.arg ) =>
           LET r == ret.value[1] IN
           /\ r.keyCount > 0 =>
                 /\ ret'.error = Undefined
                 /\ Len(apiKeys') = r.keyCount
           /\ r.keyCount = 0 => ret'.error = r.error
         ]_vars

\* a string of two keys, one of 8 characters and one too short: the manager
\* was constructed from it and the validator counts two keys and rejects
C18_Witness ==
    /\ ret.method = "parseAndValidateApiKeys"
    /\ ret.value[1].keyCount = 2
    /\ ~ret.value[1].isValid
    /\ ret.value[1].error =
          Some("1 API key(s) appear to be invalid (should be at least 8 characters)")
    /\ Len(apiKeys) = 2
    /\ Len(apiKeys[1].key) = 8
    /\ Len(apiKeys[2].key) = 7

(* C14: a successful initializeApiKeyManager makes a new manager the global *)
(* instance, replacing the previous one as a whole (a fresh table of the   *)
(* string's keys with no health of the old one, currentIndex 0); no other  *)
(* call changes the global instance, and getApiKeyManager returns it.      *)
(* hasMultipleApiKeys returns true exactly when a global instance exists   *)
(* and has more than one key, whatever the number of active keys.          *)
C14_GlobalAccessor ==
    /\ [][ (IsCall("initializeApiKeyManager") /\ ret'.error = Undefined) =>
           LET segs == Segments(ret'.arg[1]) IN
           /\ ret'.value[1] > instances
           /\ globalApiKeyManager' = ret'.value[1]
           /\ Len(apiKeys') = Len(segs)
           /\ \A p \in 1..Len(segs) :
                 apiKeys'[p] = [key |-> segs[p], index |-> p - 1, isActive |-> TRUE,
                                errorCount |-> 0, lastUsed |-> Undefined,
                                lastError |-> Undefined]
           /\ currentIndex' = 0
         ]_vars
    /\ [][ ~(IsCall("initializeApiKeyManager") /\ ret'.error = Undefined) =>
           globalApiKeyManager' = globalApiKeyManager
         ]_vars
    /\ [][ IsCall("getApiKeyManager") =>
           ret'.value = Some(globalApiKeyManager)
         ]_vars
    /\ [][ IsCall("hasMultipleApiKeys") =>
           ret'.value = Some(globalApiKeyManager # 0 /\ Len(apiKeys) > 1)
         ]_vars

\* the third manager is the global one, has two keys of which one is active,
\* and hasMultipleApiKeys returned true
C14_Witness ==
    /\ ret.method = "hasMultipleApiKeys"
    /\ ret.value = Some(TRUE)
    /\ globalApiKeyManager = 3
    /\ Len(apiKeys) = 2
    /\ CountActive(apiKeys) = 1

C20_PathChargesOwnKey ==
    [][ \A i \in Paths :
          ( /\ paths[i].pc = "waiting"
            /\ paths'[i].pc = "idle"
            /\ ret'.method = "reportApiKeyError" ) =>
          LET p == PositionOf(apiKeys, paths[i].index[1]) IN
          apiKeys'[p].errorCount = apiKeys[p].errorCount + 1
      ]_vars

\* the indices of the active credentials
ActiveIndices(keys) == {keys[p].index : p \in {q \in Positions(keys) : keys[q].isActive}}

\* the place of idx among the indices in ascending order, counted from 0
RankIn(indices, idx) == Cardinality({j \in indices : j < idx})

(* C21: under round-robin a successful rotateApiKey makes current the       *)
(* active credential with the lowest index when the credential at          *)
(* currentIndex is not active, and otherwise the one at place (p + 1) mod  *)
(* k, p being the place of the current one among the k active credentials  *)
(* in index order.                                                         *)
C21_RoundRobinFromInactive ==
    [][ ( /\ IsCall("rotateApiKey")
          /\ config.rotationStrategy = "round-robin"
          /\ CountActive(apiKeys) > 0 ) =>
        LET A == ActiveIndices(apiKeys)
            k == Cardinality(A)
        IN  IF currentIndex \notin A
            THEN /\ currentIndex' \in A
                 /\ \A j \in A : currentIndex' <= j
            ELSE /\ currentIndex' \in A
                 /\ RankIn(A, currentIndex') = (RankIn(A, currentIndex) + 1) % k
      ]_vars

\* the key at index 1 was current and is inactive, the rotation went down to
\* index 0 and not up to index 2, which is active and was never used
C21_Witness ==
    /\ ret.method = "rotateApiKey"
    /\ ret.value = Some("k1")
    /\ config.rotationStrategy = "round-robin"
    /\ Len(apiKeys) = 3
    /\ currentIndex = 0
    /\ ~apiKeys[2].isActive
    /\ apiKeys[2].lastUsed # Undefined
    /\ apiKeys[3].isActive
    /\ apiKeys[3].lastUsed = Undefined

(* C22: whenever rotateApiKey succeeds, under round-robin, least-errors or  *)
(* random, the credential at the new currentIndex is active (under random  *)
(* it is one of the credentials that were active), the returned key is the *)
(* key of that credential, its lastUsed is the time of the call, and no    *)
(* credential's isActive, errorCount or lastError changes.                 *)
C22_RotatePostcondition ==
    [][ (IsCall("rotateApiKey") /\ ret'.error = Undefined) =>
        LET p == PositionOf(apiKeys', currentIndex') IN
        /\ Len(apiKeys') = Len(apiKeys)
        /\ apiKeys'[p].isActive
        /\ currentIndex' \in ActiveIndices(apiKeys)
        /\ ret'.value = Some(apiKeys'[p].key)
        /\ apiKeys'[p].lastUsed = Some(now)
        /\ \A q \in Positions(apiKeys) :
              /\ apiKeys'[q].isActive = apiKeys[q].isActive
              /\ apiKeys'[q].errorCount = apiKeys[q].errorCount
              /\ apiKeys'[q].lastError = apiKeys[q].lastError
      ]_vars

\* a random rotation at time 1 onto the last key, while the first key, once
\* used at time 0, is inactive
C22_Witness ==
    /\ ret.method = "rotateApiKey"
    /\ ret.value = Some("k3")
    /\ config.rotationStrategy = "random"
    /\ now = 1
    /\ currentIndex = 2
    /\ apiKeys[3].lastUsed = Some(1)
    /\ ~apiKeys[1].isActive
    /\ apiKeys[1].lastUsed = Some(0)

\* the methods that read or select
ReadingMethods ==
    { "getCurrentApiKey", "getCurrentApiKeyInfo", "rotateApiKey",
      "getAllApiKeysStatus", "getActiveKeyCount", "getTotalKeyCount", "maskApiKey" }

(* C23: getCurrentApiKey, getCurrentApiKeyInfo, rotateApiKey,               *)
(* getAllApiKeysStatus, getActiveKeyCount, getTotalKeyCount and maskApiKey *)
(* never turn a credential from active to inactive: a deactivation is a    *)
(* step of reportError.  reportError does not throw, leaves currentIndex   *)
(* and every credential with another index as they are, and of the         *)
(* credential at currentIndex changes at most errorCount, lastError and    *)
(* isActive.                                                               *)
C23_ReportErrorFrame ==
    /\ [][ (\E m \in ReadingMethods : IsCall(m)) =>
           \A p \in Positions(apiKeys) : apiKeys[p].isActive => apiKeys'[p].isActive
         ]_vars
    /\ [][ (\E p \in Positions(apiKeys) : apiKeys[p].isActive /\ ~apiKeys'[p].isActive) =>
           IsCall("reportError")
         ]_vars
    /\ [][ IsCall("reportError") =>
           /\ ret'.error = Undefined
           /\ currentIndex' = currentIndex
           /\ Len(apiKeys') = Len(apiKeys)
           /\ \A p \in Positions(apiKeys) :
                 IF apiKeys[p].index = currentIndex
                 THEN /\ apiKeys'[p].key = apiKeys[p].key
                      /\ apiKeys'[p].index = apiKeys[p].index
                      /\ apiKeys'[p].lastUsed = apiKeys[p].lastUsed
                 ELSE apiKeys'[p] = apiKeys[p]
         ]_vars

\* the second of three keys is current and was deactivated by the report,
\* the first one carries an earlier error and is still active
C23_Witness ==
    /\ ret.method = "reportError"
    /\ Len(apiKeys) = 3
    /\ currentIndex = 1
    /\ ~apiKeys[2].isActive
    /\ apiKeys[2].errorCount = 2
    /\ apiKeys[1].isActive
    /\ apiKeys[1].errorCount = 1
    /\ apiKeys[3].errorCount = 0

(* C24: while only getCurrentApiKey, getCurrentApiKeyInfo, reportError and  *)
(* the status methods are called on a manager (no rotateApiKey, no new     *)
(* manager), at most one credential goes from active to inactive, however  *)
(* many errors are reported, and a manager of two or more credentials      *)
(* never gets into the state with no active credential.                    *)
C24_OneDeactivationWithoutRotate ==
    /\ [](Cardinality({p \in Positions(apiKeys) : ~apiKeys[p].isActive}) <= 1)
    /\ [](Len(apiKeys) >= 2 => CountActive(apiKeys) >= 1)
    /\ [][ \A p \in Positions(apiKeys) :
              (apiKeys[p].isActive /\ ~apiKeys'[p].isActive) =>
                  \A q \in Positions(apiKeys) : q # p => apiKeys[q].isActive
         ]_vars

\* errors reported beyond the threshold of the first key, the second key in
\* use as the fallback and untouched by the reports
C24_Witness ==
    /\ ret.method = "reportError"
    /\ Len(apiKeys) = 3
    /\ config.maxErrorsPerKey = 1
    /\ ~apiKeys[1].isActive
    /\ apiKeys[1].errorCount = 2
    /\ apiKeys[2].isActive
    /\ apiKeys[2].lastUsed # Undefined
    /\ apiKeys[2].errorCount = 0

(* C26: checkAndResetApiKeyRotation returns the flag and clears it, the    *)
(* flag is set by the rotateApiKey wrapper when it returns rotated: true   *)
(* and changed by nothing else, so a check returns true exactly when the   *)
(* wrapper has returned rotated: true since the check before it, and a     *)
(* check right after a check returns false.  The wrapper returns rotated:  *)
(* false, with flag and manager as they were, exactly when there is no     *)
(* global manager, it has at most one key, or none of its keys is active;  *)
(* otherwise it returns rotated: true and as currentKey the key of the     *)
(* credential at the new currentIndex.                                     *)
C26_RotationFlag ==
    /\ [][ IsCall("checkAndResetApiKeyRotation") =>
           /\ ret'.value = Some(globalApiKeyRotated)
           /\ globalApiKeyRotated' = FALSE
         ]_vars
    /\ [][ (ret.method = "checkAndResetApiKeyRotation"
              /\ IsCall("checkAndResetApiKeyRotation")) =>
           ret'.value = Some(FALSE)
         ]_vars
    /\ [][ IsCall("rotateApiKeyWrapper") =>
           IF globalApiKeyManager = 0 \/ Len(apiKeys) <= 1 \/ CountActive(apiKeys) = 0
           THEN /\ ~ret'.value[1].rotated
                /\ globalApiKeyRotated' = globalApiKeyRotated
                /\ apiKeys' = apiKeys
                /\ currentIndex' = currentIndex
                /\ config' = config
           ELSE /\ ret'.value[1].rotated
                /\ globalApiKeyRotated'
                /\ ret'.value[1].currentKey =
                      Some(apiKeys'[PositionOf(apiKeys', currentIndex')].key)
         ]_vars
    /\ [][ ~(IsCall("checkAndResetApiKeyRotation") \/ IsCall("rotateApiKeyWrapper")) =>
           globalApiKeyRotated' = globalApiKeyRotated
         ]_vars

\* a check that returned true and cleared the flag, after a rotation on a
\* manager of two keys onto the second, the first one being inactive
C26_Witness ==
    /\ ret.method = "checkAndResetApiKeyRotation"
    /\ ret.value = Some(TRUE)
    /\ ~globalApiKeyRotated
    /\ Len(apiKeys) = 2
    /\ ~apiKeys[1].isActive
    /\ currentIndex = 1
    /\ apiKeys[2].lastUsed # Undefined

(* C25: initializeApiKeyManager called with an empty or whitespace-only     *)
(* string, or with a string that has no non-empty segment, throws the      *)
(* respective error and leaves the global instance, its table and its      *)
(* currentIndex as they were; getApiKeyManager right after it returns the  *)
(* instance that was the global one before the call (null if none was).    *)
C25_FailedInitializeKeeps ==
    /\ [][ ( /\ IsCall("initializeApiKeyManager")
             /\ Segments(ret'.arg[1]) = <<>> ) =>
           /\ ret'.value = Undefined
           /\ ret'.error = IF IsBlank(ret'.arg[1])
                           THEN Some("No API keys provided")
                           ELSE Some("No valid API keys found after parsing")
           /\ globalApiKeyManager' = globalApiKeyManager
           /\ apiKeys' = apiKeys
           /\ currentIndex' = currentIndex
           /\ config' = config
         ]_vars
    /\ [][ ( /\ ret.method = "initializeApiKeyManager"
             /\ ret.error # Undefined
             /\ IsCall("getApiKeyManager") ) =>
           ret'.value = Some(globalApiKeyManager)
         ]_vars

\* the second manager, rotated onto its second key and with its first key
\* inactive, is still the global one after an initialisation that threw
C25_Witness ==
    /\ ret.method = "initializeApiKeyManager"
    /\ ret.error = Some("No valid API keys found after parsing")
    /\ globalApiKeyManager = 2
    /\ instances = 2
    /\ Len(apiKeys) = 2
    /\ currentIndex = 1
    /\ ~apiKeys[1].isActive

(* C27: validateAuthMethod(USE_GEMINI) with a GEMINI_API_KEY value of more  *)
(* than one key, every key of at least 8 characters, returns null and      *)
(* makes a new manager the global one: exactly those keys in order, all    *)
(* active, no errors, never used, currentIndex 0, whatever the manager     *)
(* before it had.  With a single valid key it returns null, and with that  *)
(* or with a value that fails validation (or none) the global instance,    *)
(* its table, currentIndex and configuration stay as they were.            *)
C27_ValidateAuthMethodGlobal ==
    [][ (IsCall("validateAuthMethod") /\ ret'.arg[1].authMethod = "USE_GEMINI") =>
        LET env   == ret'.arg[1].env
            segs  == IF env = Undefined THEN <<>> ELSE Segments(env[1])
            valid == /\ Len(segs) >= 1
                     /\ \A p \in 1..Len(segs) : Len(segs[p]) >= 8
        IN  IF valid /\ Len(segs) > 1
            THEN /\ ret'.value = Some(Undefined)
                 /\ globalApiKeyManager' > instances
                 /\ Len(apiKeys') = Len(segs)
                 /\ \A p \in 1..Len(segs) :
                       apiKeys'[p] = [key |-> segs[p], index |-> p - 1,
                                      isActive |-> TRUE, errorCount |-> 0,
                                      lastUsed |-> Undefined, lastError |-> Undefined]
                 /\ currentIndex' = 0
            ELSE /\ valid => ret'.value = Some(Undefined)
                 /\ ~valid => ret'.value[1] # Undefined
                 /\ globalApiKeyManager' = globalApiKeyManager
                 /\ apiKeys' = apiKeys
                 /\ currentIndex' = currentIndex
                 /\ config' = config
      ]_vars

\* a single valid key was validated: null came back, and the global manager
\* is still the second one, with its first key inactive and its second key
\* current
C27_Witness ==
    /\ ret.method = "validateAuthMethod"
    /\ ret.arg[1] = [authMethod |-> "USE_GEMINI", env |-> Some(LongKeyA)]
    /\ ret.value = Some(Undefined)
    /\ globalApiKeyManager = 2
    /\ Len(apiKeys) = 2
    /\ ~apiKeys[1].isActive
    /\ currentIndex = 1

====
